---------------------------- MODULE Spec2Model ----------------------------
(***************************************************************************)
(* Model of the Tennis Ball Physics Simulator (src/main.cpp, second        *)
(* program version, lines 577-2727): TennisBall and D2DApp.                *)
(*                                                                         *)
(* Numbers.  The program computes in single precision.  The model uses     *)
(* fixed-point integers:                                                   *)
(*   lengths     in 1/10000 m        velocities in 1/10000 m/s             *)
(*   times       in 1/10000 s        spin       in 1/100 RPM               *)
(*   force       in N (integers)     angles     in whole degrees           *)
(*   pace        in 1/1000           restitution in 1/100                  *)
(* Every product is divided back with Quot, which truncates toward zero    *)
(* and is therefore sign-symmetric like the floating-point operations.     *)
(***************************************************************************)
EXTENDS Integers, Sequences, FiniteSets, TLC

(***************************************************************************)
(* Bounds of the model (not program constants).                            *)
(***************************************************************************)
\* number of start, reset and screen key events in one behaviour
MaxKeys == 4
\* number of other input events in one behaviour: launch-setting, pace and
\* air-mode events, and ticks during which a RIGHTY movement key is held down
MaxChanges == 1
\* number of ticks after one StartSimulation in which Update does not return at once
MaxTicks == 34
\* timer ticks of the drop run followed at the unscaled and the default pace
MaxPeakTicks == 500

(***************************************************************************)
(* Arithmetic helpers.                                                     *)
(***************************************************************************)
Abs(a) == IF a < 0 THEN -a ELSE a

Min(a, b) == IF a < b THEN a ELSE b

Max(a, b) == IF a > b THEN a ELSE b

\* division truncating toward zero (C++ semantics, sign-symmetric)
Quot(a, b) == IF (a >= 0) = (b > 0) THEN Abs(a) \div Abs(b) ELSE -(Abs(a) \div Abs(b))

RECURSIVE SqrtSearch(_, _, _)
SqrtSearch(n, lo, hi) ==
    IF lo >= hi THEN lo
    ELSE LET mid == (lo + hi + 1) \div 2
         IN  IF mid * mid <= n THEN SqrtSearch(n, mid, hi)
                               ELSE SqrtSearch(n, lo, mid - 1)

\* floor of the square root, 0 <= n < 2^30
Sqrt(n) == SqrtSearch(n, 0, 32767)

\* 10000 * sin(d degrees), d in 0..90
SinTable ==
    << 0, 175, 349, 523, 698, 872, 1045, 1219, 1392, 1564, 1736, 1908, 2079,
       2250, 2419, 2588, 2756, 2924, 3090, 3256, 3420, 3584, 3746, 3907, 4067,
       4226, 4384, 4540, 4695, 4848, 5000, 5150, 5299, 5446, 5592, 5736, 5878,
       6018, 6157, 6293, 6428, 6561, 6691, 6820, 6947, 7071, 7193, 7314, 7431,
       7547, 7660, 7771, 7880, 7986, 8090, 8192, 8290, 8387, 8480, 8572, 8660,
       8746, 8829, 8910, 8988, 9063, 9135, 9205, 9272, 9336, 9397, 9455, 9511,
       9563, 9613, 9659, 9703, 9744, 9781, 9816, 9848, 9877, 9903, 9925, 9945,
       9962, 9976, 9986, 9994, 9998, 10000 >>

\* sin and cos of an angle in whole degrees, scaled by 10000
sin(deg) == SinTable[deg + 1]

cos(deg) == SinTable[(90 - deg) + 1]

(***************************************************************************)
(* Program constants.                                                      *)
(***************************************************************************)
GRAVITY == 98100
BALL_RADIUS == 335
INITIAL_HEIGHT == 20000
DT == 83
COURT_LENGTH == 237700
NET_HEIGHT == 9140
BALL_MASS == 58
MIN_HORIZONTAL_FORCE == 0
MAX_HORIZONTAL_FORCE == 1000
MIN_ANGLE == 0
MAX_ANGLE == 90
DEFAULT_HORIZONTAL_FORCE == 270
DEFAULT_ANGLE == 39
ANGLE_STEP == 3
DEFAULT_SPIN == 12000
SPIN_STEP == 6000
MAX_SPIN == 900000
\* MinSpin of settings.ini.  GetPrivateProfileIntW returns a UINT that LoadSettings
\* stores in a float, so a negative (or absent: default -3000) MinSpin is never
\* stored as a negative number; the configuration modelled sets MinSpin=0
MIN_SPIN == 0
RIGHTY_SPEED == 4
RELAUNCH_DELAY == 20000
NET_X == COURT_LENGTH \div 2
\* 1 - NET_ABSORPTION, in 1/10
NET_RETURN == 2
RIGHTY_RADIUS == 500
RIGHTY_HEIGHT == (NET_HEIGHT * 25) \div 10
\* LEFTY position (20 / (WINDOW_WIDTH - 100)) * COURT_LENGTH
LEFTY_X == (20 * COURT_LENGTH) \div 540

\* screen modes
MODE_ALL == "MODE_ALL"
MODE_CLAY == "MODE_CLAY"
MODE_GRASS == "MODE_GRASS"
MODE_HARD == "MODE_HARD"
MODE_LAVER == "MODE_LAVER"
CourtModes == {MODE_CLAY, MODE_GRASS, MODE_HARD, MODE_LAVER}
ScreenMode == {MODE_ALL} \cup CourtModes

\* courts[i].coefficientOfRestitution, in 1/100, and courts[i].friction, in 1/10
courts ==
    << [coefficientOfRestitution |-> 75, friction |-> 6],
       [coefficientOfRestitution |-> 70, friction |-> 4],
       [coefficientOfRestitution |-> 73, friction |-> 5],
       [coefficientOfRestitution |-> 72, friction |-> 5] >>

\* airModes[m].coefficient, in 1/100000
airModes == << 0, 50, 44, 39 >>

\* index into courts of the ball of an individual court screen
CourtIndex(m) ==
    CASE m = MODE_CLAY -> 1 [] m = MODE_GRASS -> 2 [] m = MODE_HARD -> 3 [] m = MODE_LAVER -> 4


(***************************************************************************)
(* TennisBall.                                                             *)
(***************************************************************************)
\* one recorded sample {time, height}
BounceData(t, h) == [time |-> t, height |-> h]

\* reset without trajectory.clear(): the initial sample is added to what is there
resetKeepsTrajectory(b) ==
    [b EXCEPT !.y = INITIAL_HEIGHT, !.vy = 0, !.x = 0, !.vx = 0, !.time = 0,
              !.bounceCount = 0, !.isActive = TRUE,
              !.trajectory = Append(b.trajectory, BounceData(0, INITIAL_HEIGHT)),
              !.bounces = << >>]

\* TennisBall::reset
reset(b) ==
    [b EXCEPT !.y = INITIAL_HEIGHT, !.vy = 0, !.x = 0, !.vx = 0, !.time = 0,
              !.bounceCount = 0, !.isActive = TRUE,
              !.trajectory = << BounceData(0, INITIAL_HEIGHT) >>,
              !.bounces = << >>]

\* TennisBall::TennisBall(courtSurface), surface given as an index into courts
TennisBall(courtSurface) ==
    reset([y |-> 0, vy |-> 0, x |-> 0, vx |-> 0, time |-> 0, bounceCount |-> 0,
           isActive |-> FALSE, surface |-> courtSurface, airResistanceCoeff |-> 0,
           spinRPM |-> 0, trajectory |-> << >>, bounces |-> << >>])

\* TennisBall::resetForHorizontalShot; totalVelocity = (force / 1000) * 50 m/s
resetForHorizontalShot(b, horizontalForce, angleDegrees, spin) ==
    [b EXCEPT !.x = LEFTY_X, !.y = 10000,
              !.vx = Quot(horizontalForce * 5 * cos(angleDegrees), 100),
              !.vy = Quot(horizontalForce * 5 * sin(angleDegrees), 100),
              !.spinRPM = spin, !.time = 0, !.bounceCount = 0, !.isActive = TRUE,
              !.trajectory = << BounceData(0, 10000) >>,
              !.bounces = << >>]

\* TennisBall::setAirResistance
setAirResistance(b, coefficient) == [b EXCEPT !.airResistanceCoeff = coefficient]

\* magnusAccelY of update: magnusCoeff * omega * ballSpeed / BALL_MASS, with
\* omega = spinRPM * 2 * pi / 60 and ballSpeed in cm/s; 0 when ballSpeed <= 0.1 m/s
magnusAccelY(spinRPM, ballSpeed) ==
    IF ballSpeed > 10
    THEN LET omega == Quot(spinRPM * 1047, 100000)
             magnusForce == Quot(omega * ballSpeed * 15, 100)
         IN  Quot(magnusForce * 10, BALL_MASS)
    ELSE 0

\* the integration part of TennisBall::update (gravity, Magnus, drag, position)
integrate(b, dt) ==
    LET vy1 == b.vy - Quot(GRAVITY * dt, 10000)
        vxc == Quot(b.vx, 100)
        vyc == Quot(vy1, 100)
        ballSpeed == Sqrt(vxc * vxc + vyc * vyc)
        vy2 == vy1 - Quot(magnusAccelY(b.spinRPM, ballSpeed) * dt, 10000)
        ax == -Quot(b.airResistanceCoeff * Quot(vxc * Abs(vxc), 10), BALL_MASS * 10)
        vx1 == b.vx + Quot(ax * dt, 10000)
    IN  [b EXCEPT !.time = b.time + dt,
                  !.vy = vy2,
                  !.y = b.y + Quot(vy2 * dt, 10000),
                  !.vx = vx1,
                  !.x = b.x + Quot(vx1 * dt, 10000)]

\* the crossing test with <= and >= on both sides (a ball on the net line counts)
crossedNetInclusive(prevX, x) ==
    (prevX <= NET_X /\ x >= NET_X) \/ (prevX >= NET_X /\ x <= NET_X)

\* crossedNet of update
crossedNet(prevX, x) == (prevX < NET_X /\ x >= NET_X) \/ (prevX > NET_X /\ x <= NET_X)

\* collisionY of update: height on the segment prev -> b at x = NET_X
collisionY(prevX, prevY, b) ==
    LET t == Quot((NET_X - prevX) * 10000, b.x - prevX)
    IN  prevY + Quot(t * (b.y - prevY), 10000)

\* hitNet without the height test: every crossing of the net plane strikes the net
hitNetAnyHeight(prevX, prevY, b) == crossedNet(prevX, b.x)

\* the ball struck the net in this step
hitNet(prevX, prevY, b) ==
    crossedNet(prevX, b.x) /\ collisionY(prevX, prevY, b) <= NET_HEIGHT + BALL_RADIUS

\* randomDeflection with twice the amplitude
randomDeflectionWide(r) == (r - 50) * 60

\* randomDeflection of update, r = rand() % 100
randomDeflection(r) == (r - 50) * 30

\* netResponse that scales vx without reversing it
netResponseForward(prevX, prevY, b, r) ==
    LET vx1 == Quot(b.vx * NET_RETURN, 10)
        vy1 == Quot(b.vy * NET_RETURN, 10) + randomDeflection(r)
    IN  [b EXCEPT !.x = NET_X,
                  !.y = collisionY(prevX, prevY, b),
                  !.vx = IF Abs(vx1) < 5000 /\ Abs(vy1) < 5000 THEN 0 ELSE vx1,
                  !.vy = vy1,
                  !.spinRPM = Quot(b.spinRPM * NET_RETURN, 10)]

\* netResponse that reverses vx without absorbing any of it
netResponseFullSpeed(prevX, prevY, b, r) ==
    LET vx1 == -b.vx
        vy1 == Quot(b.vy * NET_RETURN, 10) + randomDeflection(r)
    IN  [b EXCEPT !.x = NET_X,
                  !.y = collisionY(prevX, prevY, b),
                  !.vx = IF Abs(vx1) < 5000 /\ Abs(vy1) < 5000 THEN 0 ELSE vx1,
                  !.vy = vy1,
                  !.spinRPM = Quot(b.spinRPM * NET_RETURN, 10)]

\* the response of update to a net hit
netResponse(prevX, prevY, b, r) ==
    LET vx1 == Quot(-b.vx * NET_RETURN, 10)
        vy1 == Quot(b.vy * NET_RETURN, 10) + randomDeflection(r)
    IN  [b EXCEPT !.x = NET_X,
                  !.y = collisionY(prevX, prevY, b),
                  !.vx = IF Abs(vx1) < 5000 /\ Abs(vy1) < 5000 THEN 0 ELSE vx1,
                  !.vy = vy1,
                  !.spinRPM = Quot(b.spinRPM * NET_RETURN, 10)]

\* the net collision part of update
netCheck(prevX, prevY, b, r) ==
    IF hitNet(prevX, prevY, b) THEN netResponse(prevX, prevY, b, r) ELSE b

\* groundCheck whose bounce limit is off by one (bounceCount > 11)
groundCheckLate(b) ==
    IF b.y <= 0
    THEN LET vy1 == Quot(-b.vy * courts[b.surface].coefficientOfRestitution, 100)
             vx1 == Quot(b.vx * 8, 10) + Quot(b.spinRPM * 4, 100)
             count == b.bounceCount + 1
             stop == Abs(vy1) < 1000 \/ count > 11
         IN  [b EXCEPT !.y = 0,
                       !.bounces = IF b.bounceCount < 3
                                   THEN Append(b.bounces, BounceData(b.time, 0))
                                   ELSE b.bounces,
                       !.vy = IF stop THEN 0 ELSE vy1,
                       !.vx = IF stop THEN 0 ELSE vx1,
                       !.spinRPM = Quot(b.spinRPM * 7, 10),
                       !.bounceCount = count,
                       !.isActive = ~stop]
    ELSE b

\* groundCheck without the low-speed stop (only the bounce limit stops the ball)
groundCheckNoRest(b) ==
    IF b.y <= 0
    THEN LET vy1 == Quot(-b.vy * courts[b.surface].coefficientOfRestitution, 100)
             vx1 == Quot(b.vx * 8, 10) + Quot(b.spinRPM * 4, 100)
             count == b.bounceCount + 1
             stop == count > 10
         IN  [b EXCEPT !.y = 0,
                       !.bounces = IF b.bounceCount < 3
                                   THEN Append(b.bounces, BounceData(b.time, 0))
                                   ELSE b.bounces,
                       !.vy = IF stop THEN 0 ELSE vy1,
                       !.vx = IF stop THEN 0 ELSE vx1,
                       !.spinRPM = Quot(b.spinRPM * 7, 10),
                       !.bounceCount = count,
                       !.isActive = ~stop]
    ELSE b

\* groundCheck that reflects vy without the coefficient of restitution
groundCheckNoLoss(b) ==
    IF b.y <= 0
    THEN LET vy1 == -b.vy
             vx1 == Quot(b.vx * 8, 10) + Quot(b.spinRPM * 4, 100)
             count == b.bounceCount + 1
             stop == Abs(vy1) < 1000 \/ count > 10
         IN  [b EXCEPT !.y = 0,
                       !.bounces = IF b.bounceCount < 3
                                   THEN Append(b.bounces, BounceData(b.time, 0))
                                   ELSE b.bounces,
                       !.vy = IF stop THEN 0 ELSE vy1,
                       !.vx = IF stop THEN 0 ELSE vx1,
                       !.spinRPM = Quot(b.spinRPM * 7, 10),
                       !.bounceCount = count,
                       !.isActive = ~stop]
    ELSE b

\* groundCheck recording every ground contact in bounces
groundCheckRecordsAll(b) ==
    IF b.y <= 0
    THEN LET vy1 == Quot(-b.vy * courts[b.surface].coefficientOfRestitution, 100)
             vx1 == Quot(b.vx * 8, 10) + Quot(b.spinRPM * 4, 100)
             count == b.bounceCount + 1
             stop == Abs(vy1) < 1000 \/ count > 10
         IN  [b EXCEPT !.y = 0,
                       !.bounces = Append(b.bounces, BounceData(b.time, 0)),
                       !.vy = IF stop THEN 0 ELSE vy1,
                       !.vx = IF stop THEN 0 ELSE vx1,
                       !.spinRPM = Quot(b.spinRPM * 7, 10),
                       !.bounceCount = count,
                       !.isActive = ~stop]
    ELSE b

\* groundCheck taking the spin effect from the spin after its decay
groundCheckDecayFirst(b) ==
    IF b.y <= 0
    THEN LET vy1 == Quot(-b.vy * courts[b.surface].coefficientOfRestitution, 100)
             vx1 == Quot(b.vx * 8, 10) + Quot(Quot(b.spinRPM * 7, 10) * 4, 100)
             count == b.bounceCount + 1
             stop == Abs(vy1) < 1000 \/ count > 10
         IN  [b EXCEPT !.y = 0,
                       !.bounces = IF b.bounceCount < 3
                                   THEN Append(b.bounces, BounceData(b.time, 0))
                                   ELSE b.bounces,
                       !.vy = IF stop THEN 0 ELSE vy1,
                       !.vx = IF stop THEN 0 ELSE vx1,
                       !.spinRPM = Quot(b.spinRPM * 7, 10),
                       !.bounceCount = count,
                       !.isActive = ~stop]
    ELSE b

\* the ground collision part of update
groundCheck(b) ==
    IF b.y <= 0
    THEN LET vy1 == Quot(-b.vy * courts[b.surface].coefficientOfRestitution, 100)
             vx1 == Quot(b.vx * 8, 10) + Quot(b.spinRPM * 4, 100)
             count == b.bounceCount + 1
             stop == Abs(vy1) < 1000 \/ count > 10
         IN  [b EXCEPT !.y = 0,
                       !.bounces = IF b.bounceCount < 3
                                   THEN Append(b.bounces, BounceData(b.time, 0))
                                   ELSE b.bounces,
                       !.vy = IF stop THEN 0 ELSE vy1,
                       !.vx = IF stop THEN 0 ELSE vx1,
                       !.spinRPM = Quot(b.spinRPM * 7, 10),
                       !.bounceCount = count,
                       !.isActive = ~stop]
    ELSE b

\* the out-of-bounds part testing the left edge only
boundsCheckLeftOnly(b) ==
    IF b.x < 0 THEN [b EXCEPT !.isActive = FALSE] ELSE b

\* the out-of-bounds part of update
boundsCheck(b) ==
    IF b.x < 0 \/ b.x > COURT_LENGTH THEN [b EXCEPT !.isActive = FALSE] ELSE b

\* "Record trajectory" of update
recordTrajectory(b) ==
    [b EXCEPT !.trajectory = Append(b.trajectory, BounceData(b.time, b.y))]

\* update without the isActive guard
updateUnguarded(b, dt, r) ==
    boundsCheck(groundCheck(recordTrajectory(netCheck(b.x, b.y, integrate(b, dt), r))))

\* TennisBall::update(dt); r is the value of rand() % 100 if the net is hit
update(b, dt, r) ==
    IF ~b.isActive THEN b
    ELSE boundsCheck(groundCheck(recordTrajectory(
             netCheck(b.x, b.y, integrate(b, dt), r))))

\* update strikes the net when called on b
updateHitsNet(b, dt) == b.isActive /\ hitNet(b.x, b.y, integrate(b, dt))

(***************************************************************************)
(* Inputs of the model: the values the environment may supply.             *)
(***************************************************************************)
\* DefaultPace of settings.ini (LoadSettings), in 1/1000: 1000 percent
PaceSettings == {10000}
\* DefaultPace 100 percent (the step is DT itself) and the built-in default 200 percent
NativePaceSettings == {1000, 2000}
\* DefaultForce and DefaultAngle of settings.ini: LoadSettings stores them in
\* DEFAULT_HORIZONTAL_FORCE and DEFAULT_ANGLE before D2DApp is constructed
ForceSettings == {1000}
AngleSettings == {6}
\* a DefaultForce past MAX_HORIZONTAL_FORCE: GetPrivateProfileIntW returns
\* whatever number the file holds
ForceSettingsOutOfRange == {1200}
\* the screen keys pressed: VK_BACK and 'C' ('G', 'H' and 'L' run copies of the 'C' branch)
ScreenKeys == {MODE_ALL, MODE_CLAY}
\* the moments of a running simulation, in ticks since StartSimulation, at
\* which the user presses a key, clicks or holds a movement key; before a
\* start and after a reset the user may act at any time
InputTicks == {2, 9}
\* values of rand() % 100 at a net hit
DeflectionDraws == {0, 99}
\* rand() % 201 without the reduction
ForceDrawsUnreduced == {0, 200, 201}
\* values of rand() % 201, rand() % 31 and rand() % 541 at a relaunch, for
\* values of rand() below, at and past the modulus
ForceDraws == {r % 201 : r \in {0, 200, 201}}
AngleDraws == {r % 31 : r \in {0, 30, 31}}
SpinDraws == {r % 541 : r \in {540, 1081}}
\* what the user may have typed into a dialog field when pressing "Hit Back":
\* a number, or text GetDlgItemInt cannot translate (it then returns 0)
Typed(n) == [ok |-> TRUE, val |-> n]
Untranslated == [ok |-> FALSE, val |-> 0]
TypedForce == {Untranslated, Typed(9), Typed(380), Typed(601)}
TypedAngle == {Typed(0), Typed(76)}
TypedSpin == {Typed(-3001), Typed(120), Typed(9001)}
\* the uninitialised RightyHitParams of an Update that shows no dialog
NoParams == [force |-> 0, angle |-> 0, spin |-> 0, confirmed |-> FALSE]

(***************************************************************************)
(* D2DApp: state.                                                          *)
(***************************************************************************)
VARIABLES
    currentScreen,          \* ScreenMode
    simulationStarted,
    simulationComplete,
    simulationPaused,
    ballHitRighty,
    balls,                  \* balls[4] of the All Courts View
    courtBall,              \* clayBall, grassBall, hardBall, laverBall by screen
    horizontalForce,
    launchAngle,
    ballSpin,
    visualPaceMultiplier,
    airResistanceMode,      \* index into airModes
    waitingToRelaunch,
    relaunchTimer,
    rightyPosition,
    rightyHitForce,
    rightyHitAngle,
    rightyHitSpin,
    pc,                     \* "idle", or "dialog": Update is inside ShowRightyHitDialog
    params,                 \* the RightyHitParams local of the blocked Update
    lastOp,                 \* observation: the handler that ran last
    lastUpdate,             \* observation: stages of the TennisBall::update calls of the last tick
    staleRelaunch,          \* observation: a reset happened since waitingToRelaunch was last set
    keyCount,               \* events counted against MaxKeys
    changeCount,            \* events counted against MaxChanges
    tickCount               \* ticks counted against MaxTicks

ballVars == << balls, courtBall >>

settingVars == << horizontalForce, launchAngle, ballSpin, visualPaceMultiplier, airResistanceMode >>

relaunchVars == << waitingToRelaunch, relaunchTimer >>

hitVars == << rightyHitForce, rightyHitAngle, rightyHitSpin >>

flagVars == << currentScreen, simulationStarted, simulationComplete, simulationPaused, ballHitRighty >>

vars == << flagVars, ballVars, settingVars, relaunchVars, rightyPosition, hitVars,
           pc, params, lastOp, lastUpdate, staleRelaunch, keyCount, changeCount, tickCount >>

\* D2DApp::D2DApp after LoadSettings has stored DefaultForce, DefaultAngle and
\* DefaultPace (one of forces, one of angles, one of paces)
InitWith(forces, angles, paces) ==
    /\ currentScreen = MODE_ALL
    /\ simulationStarted = FALSE
    /\ simulationComplete = FALSE
    /\ simulationPaused = FALSE
    /\ ballHitRighty = FALSE
    /\ balls = [i \in 1..4 |-> TennisBall(i)]
    /\ courtBall = [m \in CourtModes |-> TennisBall(CourtIndex(m))]
    /\ horizontalForce \in forces
    /\ launchAngle \in angles
    /\ ballSpin = DEFAULT_SPIN
    /\ visualPaceMultiplier \in paces
    /\ airResistanceMode = 2
    /\ waitingToRelaunch = FALSE
    /\ relaunchTimer = 0
    /\ rightyPosition = COURT_LENGTH - 10000
    /\ rightyHitForce = 300
    /\ rightyHitAngle = 30
    /\ rightyHitSpin = 12000
    /\ pc = "idle"
    /\ params = NoParams
    /\ lastOp = "Init"
    /\ lastUpdate = {}
    /\ staleRelaunch = FALSE
    /\ keyCount = 0
    /\ changeCount = 0
    /\ tickCount = 0

\* D2DApp::D2DApp after LoadSettings has stored DefaultForce and DefaultAngle
\* (one of forces, one of angles) in DEFAULT_HORIZONTAL_FORCE and DEFAULT_ANGLE
InitConfigured(forces, angles) == InitWith(forces, angles, PaceSettings)

\* the program started with the settings.ini modelled
Init == InitConfigured(ForceSettings, AngleSettings)

(***************************************************************************)
(* D2DApp: helpers.                                                        *)
(***************************************************************************)
\* adjustedDT of Update: DT * visualPaceMultiplier
adjustedDT == Quot(DT * visualPaceMultiplier, 1000)

\* the kinematic fields of a ball, as recorded in lastUpdate
Kin(b) == [x |-> b.x, y |-> b.y, vx |-> b.vx, vy |-> b.vy, spinRPM |-> b.spinRPM,
           bounceCount |-> b.bounceCount, isActive |-> b.isActive]

\* the stages of one call update(b, dt, r) on an active ball
Stages(b, dt, r) ==
    LET integ == integrate(b, dt)
    IN  [surface |-> b.surface, pre |-> Kin(b), integ |-> Kin(integ),
         crossed |-> crossedNet(b.x, integ.x),
         collisionY |-> IF crossedNet(b.x, integ.x) THEN collisionY(b.x, b.y, integ) ELSE 0,
         hit |-> hitNet(b.x, b.y, integ),
         net |-> Kin(netCheck(b.x, b.y, integ, r)),
         post |-> Kin(update(b, dt, r)),
         draw |-> r]

\* the collision test without the height range of the RIGHTY stick
CheckRightyCollisionAnyHeight(ball, righty, paused) ==
    IF ~ball.isActive \/ paused THEN FALSE
    ELSE Abs(ball.x - righty) <= BALL_RADIUS + RIGHTY_RADIUS

\* D2DApp::CheckRightyCollision
CheckRightyCollision(ball, righty, paused) ==
    IF ~ball.isActive \/ paused THEN FALSE
    ELSE /\ Abs(ball.x - righty) <= BALL_RADIUS + RIGHTY_RADIUS
         /\ ball.y >= 0
         /\ ball.y <= RIGHTY_HEIGHT

\* ApplyRightyHit without the floor of 5 m/s
ApplyRightyHitNoFloor(ball, force, angle, spin, righty) ==
    LET totalVelocity == force * 500
    IN  [ball EXCEPT !.vx = -Quot(Quot(totalVelocity, 10) * cos(angle), 1000),
                     !.vy = Quot(Quot(totalVelocity, 10) * sin(angle), 1000),
                     !.spinRPM = spin,
                     !.x = righty - 1000]

\* the effect of D2DApp::ApplyRightyHit on the ball; force in N, angle in
\* degrees, totalVelocity = max(5, (force / 600) * 30) m/s
ApplyRightyHit(ball, force, angle, spin, righty) ==
    LET totalVelocity == Max(50000, force * 500)
    IN  [ball EXCEPT !.vx = -Quot(Quot(totalVelocity, 10) * cos(angle), 1000),
                     !.vy = Quot(Quot(totalVelocity, 10) * sin(angle), 1000),
                     !.spinRPM = spin,
                     !.x = righty - 1000]

\* the cancelled branch reflecting the ball at full speed
CancelBounceFullSpeed(ball, righty) ==
    [ball EXCEPT !.vx = -ball.vx, !.x = righty - 1000]

\* the "User cancelled, just bounce back" branch of Update
CancelBounce(ball, righty) ==
    [ball EXCEPT !.vx = Quot(-ball.vx * 5, 10), !.x = righty - 1000]

\* the movement keys without the max / min against NET_X and COURT_LENGTH
MoveRightyUnclamped(pos, left, right) ==
    (IF left THEN pos - RIGHTY_SPEED * DT ELSE pos) + (IF right THEN RIGHTY_SPEED * DT ELSE 0)

\* RIGHTY position after the movement keys of one tick (GetAsyncKeyState)
MoveRighty(pos, left, right) ==
    LET p1 == IF left THEN Max(NET_X, pos - RIGHTY_SPEED * DT) ELSE pos
    IN  IF right THEN Min(COURT_LENGTH, p1 + RIGHTY_SPEED * DT) ELSE p1

\* the user acts now
InputMoment == ~simulationStarted \/ simulationComplete \/ tickCount \in InputTicks

\* the early return of Update without the simulationPaused test
UpdateReturnsEarlyNoPause == ~simulationStarted \/ simulationComplete

\* Update returns at once
UpdateReturnsEarly == ~simulationStarted \/ simulationComplete \/ simulationPaused

(***************************************************************************)
(* D2DApp::Update, called from WM_TIMER.                                   *)
(***************************************************************************)
\* the MODE_ALL branch of Update without the anyActive test
UpdateAllNeverComplete(r) ==
    /\ balls' = [i \in 1..4 |-> update(balls[i], adjustedDT, r)]
    /\ lastUpdate' = {Stages(balls[i], adjustedDT, r) : i \in {j \in 1..4 : balls[j].isActive}}
    /\ UNCHANGED << currentScreen, simulationStarted, simulationComplete, simulationPaused,
                    ballHitRighty, courtBall, settingVars, relaunchVars, hitVars, pc, params,
                    staleRelaunch >>

\* the MODE_ALL branch of Update
UpdateAll(r) ==
    LET next == [i \in 1..4 |-> update(balls[i], adjustedDT, r)]
    IN  /\ balls' = next
        /\ lastUpdate' = {Stages(balls[i], adjustedDT, r) : i \in {j \in 1..4 : balls[j].isActive}}
        /\ simulationComplete' = ~(\E i \in 1..4 : next[i].isActive)
        /\ UNCHANGED << currentScreen, simulationStarted, simulationPaused, ballHitRighty,
                        courtBall, settingVars, relaunchVars, hitVars, pc, params,
                        staleRelaunch >>

\* the relaunch of the court branch: the timer has run out
Relaunch(b, rf, ra, rs) ==
    /\ horizontalForce' = 200 + rf
    /\ launchAngle' = 9 + ra
    /\ ballSpin' = (60 + rs) * 100
    /\ courtBall' = [courtBall EXCEPT ![currentScreen] =
           resetForHorizontalShot(setAirResistance(b, airModes[airResistanceMode]),
                                  200 + rf, 9 + ra, (60 + rs) * 100)]
    /\ waitingToRelaunch' = FALSE
    /\ relaunchTimer' = 0
    /\ lastOp' = "Relaunch"
    /\ lastUpdate' = {}
    /\ UNCHANGED << flagVars, balls, visualPaceMultiplier, airResistanceMode, hitVars,
                    pc, params, staleRelaunch >>

\* the waiting branch testing the timer before the step is added to it
UpdateWaitingLate(b, timer, atEnd) ==
    IF timer >= RELAUNCH_DELAY
    THEN \E rf \in ForceDraws, ra \in AngleDraws, rs \in SpinDraws : Relaunch(b, rf, ra, rs)
    ELSE /\ relaunchTimer' = timer + adjustedDT
         /\ waitingToRelaunch' = TRUE
         /\ courtBall' = [courtBall EXCEPT ![currentScreen] = b]
         /\ lastOp' = "Update"
         /\ lastUpdate' = {}
         /\ UNCHANGED << flagVars, balls, settingVars, hitVars, pc, params >>
         /\ staleRelaunch' = IF atEnd THEN FALSE ELSE staleRelaunch

\* the court branch of Update while waitingToRelaunch
UpdateWaiting(b, timer, atEnd) ==
    IF timer + adjustedDT >= RELAUNCH_DELAY
    THEN \E rf \in ForceDraws, ra \in AngleDraws, rs \in SpinDraws : Relaunch(b, rf, ra, rs)
    ELSE /\ relaunchTimer' = timer + adjustedDT
         /\ waitingToRelaunch' = TRUE
         /\ courtBall' = [courtBall EXCEPT ![currentScreen] = b]
         /\ lastOp' = "Update"
         /\ lastUpdate' = {}
         /\ UNCHANGED << flagVars, balls, settingVars, hitVars, pc, params >>
         /\ staleRelaunch' = IF atEnd THEN FALSE ELSE staleRelaunch

\* the court branch of Update while the ball is in play
UpdateFlying(b, r) ==
    LET b2 == update(b, adjustedDT, r)
    IN  /\ courtBall' = [courtBall EXCEPT ![currentScreen] = b2]
        /\ lastOp' = "Update"
        /\ lastUpdate' = IF b.isActive THEN {Stages(b, adjustedDT, r)} ELSE {}
        /\ UNCHANGED << currentScreen, simulationStarted, simulationComplete, balls,
                        settingVars, hitVars >>
        /\ IF CheckRightyCollision(b2, rightyPosition', simulationPaused)
           THEN \* Update blocks in ShowRightyHitDialog
                /\ simulationPaused' = TRUE
                /\ ballHitRighty' = TRUE
                /\ pc' = "dialog"
                /\ params' = [force |-> rightyHitForce, angle |-> rightyHitAngle,
                              spin |-> rightyHitSpin, confirmed |-> FALSE]
                /\ UNCHANGED << relaunchVars, staleRelaunch >>
           ELSE /\ waitingToRelaunch' = (waitingToRelaunch \/ ~b2.isActive)
                /\ relaunchTimer' = IF ~b2.isActive THEN 0 ELSE relaunchTimer
                /\ staleRelaunch' = IF ~b2.isActive THEN FALSE ELSE staleRelaunch
                /\ UNCHANGED << simulationPaused, ballHitRighty, pc, params >>

\* the MODE_CLAY / MODE_GRASS / MODE_HARD / MODE_LAVER branch of Update
UpdateCourt(r) ==
    LET b0 == courtBall[currentScreen]
        atEnd == b0.isActive /\ b0.x >= COURT_LENGTH
        b1 == IF atEnd THEN [b0 EXCEPT !.isActive = FALSE] ELSE b0
    IN  IF atEnd \/ waitingToRelaunch
        THEN UpdateWaiting(b1, IF atEnd THEN 0 ELSE relaunchTimer, atEnd)
        ELSE UpdateFlying(b1, r)

\* the ball update of this tick would strike the net, so rand() is called
NeedsDraw ==
    /\ currentScreen # MODE_ALL
    /\ ~waitingToRelaunch
    /\ updateHitsNet(courtBall[currentScreen], adjustedDT)

\* D2DApp::Update; left and right: VK_LEFT / VK_RIGHT are held down
Update(left, right) ==
    IF UpdateReturnsEarly
    THEN /\ lastOp' = "UpdateSkipped"
         /\ UNCHANGED << flagVars, ballVars, settingVars, relaunchVars, rightyPosition,
                         hitVars, pc, params, lastUpdate, staleRelaunch, keyCount, changeCount, tickCount >>
    ELSE /\ tickCount < MaxTicks
         /\ tickCount' = tickCount + 1
         /\ (left \/ right) => (currentScreen # MODE_ALL /\ changeCount < MaxChanges /\ InputMoment)
         /\ changeCount' = IF left \/ right THEN changeCount + 1 ELSE changeCount
         /\ UNCHANGED keyCount
         /\ rightyPosition' = IF currentScreen # MODE_ALL
                              THEN MoveRighty(rightyPosition, left, right)
                              ELSE rightyPosition
         /\ IF currentScreen = MODE_ALL
            THEN UpdateAll(0) /\ lastOp' = "Update"
            ELSE \E r \in (IF NeedsDraw THEN DeflectionDraws ELSE {0}) : UpdateCourt(r)

(***************************************************************************)
(* The return-shot dialog (RightyHitDialogProc) and the rest of the Update *)
(* that is blocked in ShowRightyHitDialog.                                 *)
(***************************************************************************)
\* "Check if ball stopped moving" at the end of the court branch of Update
StoppedCheck(b) ==
    /\ waitingToRelaunch' = (waitingToRelaunch \/ ~b.isActive)
    /\ relaunchTimer' = IF ~b.isActive THEN 0 ELSE relaunchTimer
    /\ staleRelaunch' = IF ~b.isActive THEN FALSE ELSE staleRelaunch

\* IDOK with a field that is rejected: the dialog stays open
DialogReprompt(p) ==
    /\ params' = p
    /\ lastOp' = "DialogReprompt"
    /\ UNCHANGED << flagVars, ballVars, settingVars, relaunchVars, rightyPosition, hitVars,
                    pc, lastUpdate, staleRelaunch, keyCount, changeCount, tickCount >>

\* IDOK with valid fields: ShowRightyHitDialog returns true, Update applies the hit
DialogAccept(p) ==
    LET b == ApplyRightyHit(courtBall[currentScreen], p.force, p.angle, p.spin, rightyPosition)
    IN  /\ rightyHitForce' = p.force
        /\ rightyHitAngle' = p.angle
        /\ rightyHitSpin' = p.spin
        /\ courtBall' = [courtBall EXCEPT ![currentScreen] = b]
        /\ simulationPaused' = FALSE
        /\ ballHitRighty' = FALSE
        /\ StoppedCheck(b)
        /\ pc' = "idle"
        /\ params' = NoParams
        /\ lastOp' = "DialogAccept"
        /\ UNCHANGED << currentScreen, simulationStarted, simulationComplete, balls,
                        settingVars, rightyPosition, lastUpdate, keyCount, changeCount, tickCount >>

\* an IDOK case that clamps the force into [10, 600] instead of rejecting it
DialogOkClamping(tf, ta, ts) ==
    /\ pc = "dialog"
    /\ LET p1 == [params EXCEPT !.force = Max(10, Min(600, tf.val))]
           p2 == [p1 EXCEPT !.angle = ta.val]
           p3 == [p2 EXCEPT !.spin = ts.val * 100]
       IN  IF ~tf.ok THEN DialogReprompt(p1)
           ELSE IF ~ta.ok \/ ta.val < 0 \/ ta.val > 75 THEN DialogReprompt(p2)
           ELSE IF ~ts.ok \/ ts.val < -3000 \/ ts.val > 9000 THEN DialogReprompt(p3)
           ELSE DialogAccept([p3 EXCEPT !.confirmed = TRUE])

\* the IDOK case of RightyHitDialogProc; tf, ta, ts: the text of the three fields
DialogOk(tf, ta, ts) ==
    /\ pc = "dialog"
    /\ LET p1 == [params EXCEPT !.force = tf.val]
           p2 == [p1 EXCEPT !.angle = ta.val]
           p3 == [p2 EXCEPT !.spin = ts.val * 100]
       IN  IF ~tf.ok \/ tf.val < 10 \/ tf.val > 600 THEN DialogReprompt(p1)
           ELSE IF ~ta.ok \/ ta.val < 0 \/ ta.val > 75 THEN DialogReprompt(p2)
           ELSE IF ~ts.ok \/ ts.val < -3000 \/ ts.val > 9000 THEN DialogReprompt(p3)
           ELSE DialogAccept([p3 EXCEPT !.confirmed = TRUE])

\* a cancelled dialog after which Update forgets to clear simulationPaused
DialogCancelStaysPaused ==
    /\ pc = "dialog"
    /\ LET b == CancelBounce(courtBall[currentScreen], rightyPosition)
       IN  /\ courtBall' = [courtBall EXCEPT ![currentScreen] = b]
           /\ StoppedCheck(b)
    /\ pc' = "idle"
    /\ params' = NoParams
    /\ lastOp' = "DialogCancel"
    /\ UNCHANGED << flagVars, balls, settingVars, rightyPosition, hitVars, lastUpdate,
                    keyCount, changeCount, tickCount >>

\* a cancelled dialog whose typed values are remembered as the next defaults
DialogCancelRemembers ==
    /\ pc = "dialog"
    /\ LET b == CancelBounce(courtBall[currentScreen], rightyPosition)
       IN  /\ courtBall' = [courtBall EXCEPT ![currentScreen] = b]
           /\ StoppedCheck(b)
    /\ rightyHitForce' = params.force
    /\ rightyHitAngle' = params.angle
    /\ rightyHitSpin' = params.spin
    /\ simulationPaused' = FALSE
    /\ ballHitRighty' = FALSE
    /\ pc' = "idle"
    /\ params' = NoParams
    /\ lastOp' = "DialogCancel"
    /\ UNCHANGED << currentScreen, simulationStarted, simulationComplete, balls,
                    settingVars, rightyPosition, lastUpdate, keyCount, changeCount, tickCount >>

\* the IDCANCEL case of RightyHitDialogProc, then the cancelled branch of Update
DialogCancel ==
    /\ pc = "dialog"
    /\ LET b == CancelBounce(courtBall[currentScreen], rightyPosition)
       IN  /\ courtBall' = [courtBall EXCEPT ![currentScreen] = b]
           /\ StoppedCheck(b)
    /\ simulationPaused' = FALSE
    /\ ballHitRighty' = FALSE
    /\ pc' = "idle"
    /\ params' = NoParams
    /\ lastOp' = "DialogCancel"
    /\ UNCHANGED << currentScreen, simulationStarted, simulationComplete, balls,
                    settingVars, rightyPosition, hitVars, lastUpdate, keyCount, changeCount, tickCount >>

(***************************************************************************)
(* Keyboard and mouse handlers.  The main window is the owner of the modal *)
(* dialog and is disabled while it is open, so they run only at pc "idle". *)
(***************************************************************************)
\* a reset while a relaunch is pending leaves the pending flag behind
MarkStale == staleRelaunch' = (staleRelaunch \/ waitingToRelaunch)

\* the current screen's ball(s) put back to the launch state, as the reset,
\* mode and settings branches of OnKeyPress do (without setAirResistance)
ResetBalls(screen, force, angle, spin) ==
    IF screen = MODE_ALL
    THEN /\ balls' = [i \in 1..4 |-> reset(balls[i])]
         /\ UNCHANGED courtBall
    ELSE /\ courtBall' = [courtBall EXCEPT ![screen] =
                             resetForHorizontalShot(courtBall[screen], force, angle, spin)]
         /\ UNCHANGED balls

\* StartSimulation that leaves waitingToRelaunch and relaunchTimer as they are
StartSimulationKeepsPending ==
    /\ pc = "idle"
    /\ keyCount < MaxKeys
    /\ InputMoment
    /\ keyCount' = keyCount + 1
    /\ simulationStarted' = TRUE
    /\ simulationComplete' = FALSE
    /\ IF currentScreen = MODE_ALL
       THEN /\ balls' = [i \in 1..4 |-> reset(balls[i])]
            /\ UNCHANGED courtBall
       ELSE /\ courtBall' = [courtBall EXCEPT ![currentScreen] =
                   resetForHorizontalShot(
                       setAirResistance(courtBall[currentScreen], airModes[airResistanceMode]),
                       horizontalForce, launchAngle, ballSpin)]
            /\ UNCHANGED balls
    /\ lastOp' = "StartSimulation"
    /\ lastUpdate' = {}
    /\ tickCount' = 0
    /\ UNCHANGED << currentScreen, simulationPaused, ballHitRighty, settingVars, relaunchVars,
                    rightyPosition, hitVars, pc, params, staleRelaunch, changeCount >>

\* D2DApp::StartSimulation (VK_SPACE)
StartSimulation ==
    /\ pc = "idle"
    /\ keyCount < MaxKeys
    /\ InputMoment
    /\ keyCount' = keyCount + 1
    /\ simulationStarted' = TRUE
    /\ simulationComplete' = FALSE
    /\ waitingToRelaunch' = FALSE
    /\ relaunchTimer' = 0
    /\ IF currentScreen = MODE_ALL
       THEN /\ balls' = [i \in 1..4 |-> reset(balls[i])]
            /\ UNCHANGED courtBall
       ELSE /\ courtBall' = [courtBall EXCEPT ![currentScreen] =
                   resetForHorizontalShot(
                       setAirResistance(courtBall[currentScreen], airModes[airResistanceMode]),
                       horizontalForce, launchAngle, ballSpin)]
            /\ UNCHANGED balls
    /\ lastOp' = "StartSimulation"
    /\ lastUpdate' = {}
    /\ tickCount' = 0
    /\ UNCHANGED << currentScreen, simulationPaused, ballHitRighty, settingVars,
                    rightyPosition, hitVars, pc, params, staleRelaunch, changeCount >>

\* OnKeyPress 'R'
KeyReset ==
    /\ pc = "idle"
    /\ keyCount < MaxKeys
    /\ InputMoment
    /\ keyCount' = keyCount + 1
    /\ simulationStarted' = FALSE
    /\ simulationComplete' = FALSE
    /\ ResetBalls(currentScreen, horizontalForce, launchAngle, ballSpin)
    /\ MarkStale
    /\ lastOp' = "KeyReset"
    /\ lastUpdate' = {}
    /\ UNCHANGED << currentScreen, simulationPaused, ballHitRighty, settingVars, relaunchVars,
                    rightyPosition, hitVars, pc, params, changeCount, tickCount >>

\* OnKeyPress 'C', 'G', 'H', 'L' (a court screen) and VK_BACK (MODE_ALL)
KeyScreen(screen) ==
    /\ pc = "idle"
    /\ keyCount < MaxKeys
    /\ InputMoment
    /\ keyCount' = keyCount + 1
    /\ currentScreen' = screen
    /\ simulationStarted' = FALSE
    /\ simulationComplete' = FALSE
    /\ ResetBalls(screen, horizontalForce, launchAngle, ballSpin)
    /\ MarkStale
    /\ lastOp' = "KeyScreen"
    /\ lastUpdate' = {}
    /\ UNCHANGED << simulationPaused, ballHitRighty, settingVars, relaunchVars,
                    rightyPosition, hitVars, pc, params, changeCount, tickCount >>

\* the launch-setting keys of OnKeyPress and OnMouseWheel on a court screen:
\* the new setting is stored and, if the simulation is not started, the ball re-aimed
ChangeSetting(force, angle, spin) ==
    /\ pc = "idle"
    /\ currentScreen \in CourtModes
    /\ changeCount < MaxChanges
    /\ InputMoment
    /\ changeCount' = changeCount + 1
    /\ horizontalForce' = force
    /\ launchAngle' = angle
    /\ ballSpin' = spin
    /\ IF ~simulationStarted
       THEN ResetBalls(currentScreen, force, angle, spin)
       ELSE UNCHANGED ballVars
    /\ lastOp' = "ChangeSetting"
    /\ lastUpdate' = {}
    /\ UNCHANGED << flagVars, visualPaceMultiplier, airResistanceMode, relaunchVars,
                    rightyPosition, hitVars, pc, params, staleRelaunch, keyCount, tickCount >>

\* 'D' / VK_UP (up) and 'A' / VK_DOWN
KeyForce(up) ==
    ChangeSetting(IF up THEN Min(MAX_HORIZONTAL_FORCE, horizontalForce + 10)
                        ELSE Max(MIN_HORIZONTAL_FORCE, horizontalForce - 10),
                  launchAngle, ballSpin)

\* 'W' / wheel up (up) and 'S' / wheel down
KeyAngle(up) ==
    ChangeSetting(horizontalForce,
                  IF up THEN Min(MAX_ANGLE, launchAngle + ANGLE_STEP)
                        ELSE Max(MIN_ANGLE, launchAngle - ANGLE_STEP),
                  ballSpin)

\* Ctrl + '+' / '>' (up) and Ctrl + '-' / '<'
KeySpin(up) ==
    ChangeSetting(horizontalForce, launchAngle,
                  IF up THEN Min(MAX_SPIN, ballSpin + SPIN_STEP)
                        ELSE Max(MIN_SPIN, ballSpin - SPIN_STEP))

\* '+' and '-': visual pace
KeyPace(up) ==
    /\ pc = "idle"
    /\ changeCount < MaxChanges
    /\ InputMoment
    /\ changeCount' = changeCount + 1
    /\ visualPaceMultiplier' = IF up THEN Min(10000, Quot(visualPaceMultiplier * 11, 10))
                                     ELSE Max(100, Quot(visualPaceMultiplier * 10, 11))
    /\ lastOp' = "KeyPace"
    /\ lastUpdate' = {}
    /\ UNCHANGED << flagVars, ballVars, horizontalForce, launchAngle, ballSpin,
                    airResistanceMode, relaunchVars, rightyPosition, hitVars, pc, params,
                    staleRelaunch, keyCount, tickCount >>

\* OnMouseClick that hands the new coefficient to the ball also during a simulation
OnMouseClickInFlight ==
    /\ pc = "idle"
    /\ currentScreen \in CourtModes
    /\ changeCount < MaxChanges
    /\ InputMoment
    /\ changeCount' = changeCount + 1
    /\ airResistanceMode' = (airResistanceMode % 4) + 1
    /\ IF ~simulationStarted
       THEN courtBall' = [courtBall EXCEPT ![currentScreen] =
                resetForHorizontalShot(
                    setAirResistance(courtBall[currentScreen], airModes[airResistanceMode']),
                    horizontalForce, launchAngle, ballSpin)]
       ELSE courtBall' = [courtBall EXCEPT ![currentScreen] =
                setAirResistance(courtBall[currentScreen], airModes[airResistanceMode'])]
    /\ lastOp' = "OnMouseClick"
    /\ lastUpdate' = {}
    /\ UNCHANGED << flagVars, balls, horizontalForce, launchAngle, ballSpin,
                    visualPaceMultiplier, relaunchVars, rightyPosition, hitVars, pc, params,
                    staleRelaunch, keyCount, tickCount >>

\* D2DApp::OnMouseClick inside the combo box: next air resistance mode
OnMouseClick ==
    /\ pc = "idle"
    /\ currentScreen \in CourtModes
    /\ changeCount < MaxChanges
    /\ InputMoment
    /\ changeCount' = changeCount + 1
    /\ airResistanceMode' = (airResistanceMode % 4) + 1
    /\ IF ~simulationStarted
       THEN courtBall' = [courtBall EXCEPT ![currentScreen] =
                resetForHorizontalShot(
                    setAirResistance(courtBall[currentScreen], airModes[airResistanceMode']),
                    horizontalForce, launchAngle, ballSpin)]
       ELSE UNCHANGED courtBall
    /\ lastOp' = "OnMouseClick"
    /\ lastUpdate' = {}
    /\ UNCHANGED << flagVars, balls, horizontalForce, launchAngle, ballSpin,
                    visualPaceMultiplier, relaunchVars, rightyPosition, hitVars, pc, params,
                    staleRelaunch, keyCount, tickCount >>

(***************************************************************************)
(* The message loop.                                                       *)
(***************************************************************************)
\* WM_TIMER: the timer set by SetTimer(hwnd, 1, 8, NULL) at WM_CREATE keeps
\* posting ticks, and each one calls Update
Tick == \E left, right \in BOOLEAN : Update(left, right)

Next ==
    \/ Tick
    \/ \E tf \in TypedForce, ta \in TypedAngle, ts \in TypedSpin : DialogOk(tf, ta, ts)
    \/ DialogCancel
    \/ StartSimulation
    \/ KeyReset
    \/ \E screen \in ScreenKeys : KeyScreen(screen)
    \/ \E up \in BOOLEAN : KeyForce(up)
    \/ \E up \in BOOLEAN : KeyAngle(up)
    \/ \E up \in BOOLEAN : KeySpin(up)
    \/ \E up \in BOOLEAN : KeyPace(up)
    \/ OnMouseClick

Spec == Init /\ [][Next]_vars

\* a Tick step as lastOp and tickCount show it: Tick is enabled exactly when
\* TickStep is, and a step of Next is a TickStep exactly when it is a Tick that
\* changes the state (Update alone sets lastOp to "Update", "Relaunch" or
\* "UpdateSkipped", and alone advances tickCount)
TickStep ==
    IF UpdateReturnsEarly
    THEN lastOp # "UpdateSkipped" /\ lastOp' = "UpdateSkipped" /\ tickCount' = tickCount
    ELSE tickCount < MaxTicks /\ tickCount' = tickCount + 1 /\ lastOp' \in {"Update", "Relaunch"}

\* the program started with any of the DefaultForce values, in range or not
ConfigInit == InitConfigured(ForceSettings \cup ForceSettingsOutOfRange, AngleSettings)

ConfigSpec == ConfigInit /\ [][Next]_vars

\* the message loop with the timer ticks never starved
FairSpec == Init /\ [][Next]_vars /\ WF_<< lastOp, tickCount >>(TickStep)

\* the program started with DefaultPace 100 or 200 percent
DropInit == InitWith(ForceSettings, AngleSettings, NativePaceSettings)

\* VK_SPACE on the All Courts View while no drop run is under way
DropStart == (~simulationStarted \/ simulationComplete) /\ StartSimulation

\* a timer tick of the drop simulation on the All Courts View
DropTick ==
    /\ currentScreen = MODE_ALL
    /\ ~UpdateReturnsEarly
    /\ tickCount < MaxPeakTicks
    /\ tickCount' = tickCount + 1
    /\ UpdateAll(0)
    /\ lastOp' = "Update"
    /\ UNCHANGED << rightyPosition, keyCount, changeCount >>

\* a timer tick for which Update returns at once
DropSkipped == UpdateReturnsEarly /\ Update(FALSE, FALSE)

\* the drop simulation alone: starts and timer ticks
DropNext == DropStart \/ DropTick \/ DropSkipped

DropSpec == DropInit /\ [][DropNext]_vars

\* what a timer tick of the drop simulation does to lastOp and tickCount
DropTickStep ==
    IF UpdateReturnsEarly
    THEN lastOp # "UpdateSkipped" /\ lastOp' = "UpdateSkipped" /\ tickCount' = tickCount
    ELSE /\ currentScreen = MODE_ALL
         /\ tickCount < MaxPeakTicks
         /\ tickCount' = tickCount + 1
         /\ lastOp' = "Update"

\* the drop simulation with the timer firing again and again
FairDropSpec == DropInit /\ [][DropNext]_vars /\ WF_<< lastOp, tickCount >>(DropTickStep)

(***************************************************************************)
(* Properties.                                                             *)
(***************************************************************************)
\* C1: while simulationPaused is true (the return-shot dialog is open inside
\* Update), a timer tick that re-enters Update changes neither a ball (position,
\* velocity, spin, bounce count, histories) nor the RIGHTY position nor the
\* relaunch flag and timer.
C1_PausedTickChangesNothing ==
    [][(simulationPaused /\ lastOp' \in {"Update", "UpdateSkipped", "Relaunch"})
          => UNCHANGED << ballVars, rightyPosition, relaunchVars >>]_vars

\* a tick has re-entered Update while the dialog is open
C1_Witness == simulationPaused /\ pc = "dialog" /\ lastOp = "UpdateSkipped"

\* C2: a pause exists only while the dialog is open, and when the dialog returns,
\* accepted or cancelled, that Update ends with simulationPaused false and an
\* active ball that the next tick integrates (simulation running, no relaunch
\* pending, ball short of the court end).
C2_PauseIsFollowedByResume ==
    /\ simulationPaused => (pc = "dialog" /\ currentScreen \in CourtModes)
    /\ lastOp \in {"DialogAccept", "DialogCancel"} =>
          /\ ~simulationPaused
          /\ pc = "idle"
          /\ ~UpdateReturnsEarly
          /\ ~waitingToRelaunch
          /\ courtBall[currentScreen].isActive
          /\ courtBall[currentScreen].x < COURT_LENGTH

\* the dialog has returned and the ball flies again
C2_Witness ==
    /\ lastOp \in {"DialogAccept", "DialogCancel"}
    /\ ~simulationPaused
    /\ courtBall[currentScreen].isActive

\* C3: after a reset ('R' or a screen key) pressed while a relaunch was pending,
\* no timer-driven relaunch fires, neither while idle nor after the next launch,
\* until the ball in play has itself come to rest or left the court
\* (staleRelaunch records that such a reset happened since waitingToRelaunch was
\* last set by the ball).
C3_ResetCancelsPendingRelaunch ==
    [][lastOp' = "Relaunch" => ~staleRelaunch]_vars

\* a reset hit a pending relaunch, the ball was launched again and ticks run
C3_Witness ==
    /\ staleRelaunch
    /\ simulationStarted
    /\ currentScreen \in CourtModes
    /\ lastOp = "Update"
    /\ ~waitingToRelaunch

\* C4: isActive falls only inside Update (TennisBall::update or the court-end
\* check) and rises only in a start, reset key, screen key, idle setting change
\* or timer relaunch; TennisBall::update, an accepted return hit and a cancelled
\* return leave every inactive ball inactive.
C4_LifecycleOnlyForward ==
    /\ [](\A b \in {balls[i] : i \in 1..4} \cup {courtBall[m] : m \in CourtModes} :
             ~b.isActive =>
                /\ \A r \in DeflectionDraws : ~update(b, adjustedDT, r).isActive
                /\ ~ApplyRightyHit(b, rightyHitForce, rightyHitAngle, rightyHitSpin,
                                   rightyPosition).isActive
                /\ ~CancelBounce(b, rightyPosition).isActive)
    /\ [][/\ \A i \in 1..4 :
                /\ (balls[i].isActive /\ ~balls'[i].isActive) => lastOp' = "Update"
                /\ (~balls[i].isActive /\ balls'[i].isActive) =>
                       lastOp' \in {"StartSimulation", "KeyReset", "KeyScreen"}
          /\ \A m \in CourtModes :
                /\ (courtBall[m].isActive /\ ~courtBall'[m].isActive) => lastOp' = "Update"
                /\ (~courtBall[m].isActive /\ courtBall'[m].isActive) =>
                       lastOp' \in {"StartSimulation", "KeyReset", "KeyScreen",
                                    "ChangeSetting", "OnMouseClick", "Relaunch"}]_vars

\* a ball that had come to rest or left the court flies again after a timer relaunch
C4_Witness ==
    /\ lastOp = "Relaunch"
    /\ currentScreen \in CourtModes
    /\ courtBall[currentScreen].isActive
    /\ courtBall[currentScreen].bounceCount = 0

C6_SlowBounceComesToRest ==
    \A st \in lastUpdate :
        (/\ st.net.y <= 0
         /\ Abs(Quot(-st.net.vy * courts[st.surface].coefficientOfRestitution, 100)) < 1000)
        => (~st.post.isActive /\ st.post.vx = 0 /\ st.post.vy = 0 /\ st.post.y = 0)

\* a ground contact below the speed limit, before the bounce limit is reached
C6_Witness ==
    \E st \in lastUpdate :
        /\ st.net.y <= 0
        /\ Abs(Quot(-st.net.vy * courts[st.surface].coefficientOfRestitution, 100)) < 1000
        /\ st.post.bounceCount <= 10
        /\ ~st.post.isActive

\* C7 (as the code behaves): on a net hit the horizontal velocity is reversed and
\* scaled: vx after the net check is -0.2 times vx before it, so the ball comes
\* back from the net, unless the soft-hit rule (|vx| < 0.5 and |vy| < 0.5 after
\* the hit) sets vx to 0.
C7_NetHitReflectsVx ==
    \A st \in lastUpdate :
        (st.crossed /\ st.collisionY <= NET_HEIGHT + BALL_RADIUS) =>
            \/ /\ st.net.vx = Quot(-st.integ.vx * 2, 10)
               /\ st.integ.vx >= 0 => st.net.vx <= 0
               /\ st.integ.vx <= 0 => st.net.vx >= 0
            \/ /\ st.net.vx = 0
               /\ Abs(Quot(st.integ.vx * 2, 10)) < 5000
               /\ Abs(st.net.vy) < 5000

\* a net hit has sent the ball back with a fifth of its horizontal speed
C7_Witness ==
    \E st \in lastUpdate :
        /\ st.crossed
        /\ st.collisionY <= NET_HEIGHT + BALL_RADIUS
        /\ st.net.vx # 0
        /\ (st.integ.vx > 0 /\ st.net.vx < 0) \/ (st.integ.vx < 0 /\ st.net.vx > 0)

\* C7 as stated: on a net hit vx after the net check is 0.2 times vx before it
\* and keeps its sign (or is 0 by the soft-hit rule).
C7_AsStated ==
    \A st \in lastUpdate :
        (st.crossed /\ st.collisionY <= NET_HEIGHT + BALL_RADIUS) =>
            \/ /\ st.net.vx = Quot(st.integ.vx * 2, 10)
               /\ st.integ.vx >= 0 => st.net.vx >= 0
               /\ st.integ.vx <= 0 => st.net.vx <= 0
            \/ /\ st.net.vx = 0
               /\ Abs(Quot(st.integ.vx * 2, 10)) < 5000
               /\ Abs(st.net.vy) < 5000

\* C8: on every net hit |vx after the net check| <= 0.2 * |vx before it|.
C8_NetHitBoundsVx ==
    \A st \in lastUpdate :
        (st.crossed /\ st.collisionY <= NET_HEIGHT + BALL_RADIUS) =>
            10 * Abs(st.net.vx) <= 2 * Abs(st.integ.vx)

\* a net hit of a ball faster than 1 m/s horizontally
C8_Witness ==
    \E st \in lastUpdate :
        /\ st.crossed
        /\ st.collisionY <= NET_HEIGHT + BALL_RADIUS
        /\ Abs(st.integ.vx) > 10000

C10_NetClearedUnchanged ==
    \A st \in lastUpdate :
        (st.crossed /\ st.collisionY > NET_HEIGHT + BALL_RADIUS) =>
            /\ st.net.x = st.integ.x
            /\ st.net.y = st.integ.y
            /\ st.net.vx = st.integ.vx
            /\ st.net.vy = st.integ.vy
            /\ st.net.spinRPM = st.integ.spinRPM

\* a ball has crossed the net plane above the net
C10_Witness ==
    \E st \in lastUpdate :
        /\ st.crossed
        /\ st.collisionY > NET_HEIGHT + BALL_RADIUS
        /\ st.post.x # NET_X


\* C11 (as the code has it): every timer-driven relaunch draws whole-number
\* parameters in the closed ranges force 200..400 N, angle 9..39 degrees and
\* spin 60..600 RPM (rand() % 201, % 31 and % 541 added to the lower bounds),
\* stores them as the launch settings and launches the ball with them; the
\* upper bounds 400, 39 and 600 are produced.
C11_RelaunchDrawsClosedRanges ==
    lastOp = "Relaunch" =>
        /\ horizontalForce \in 200..400
        /\ launchAngle \in 9..39
        /\ ballSpin \in {rpm * 100 : rpm \in 60..600}
        /\ ~waitingToRelaunch
        /\ relaunchTimer = 0
        /\ LET b == courtBall[currentScreen]
           IN  /\ b.isActive
               /\ b.spinRPM = ballSpin
               /\ b.x = LEFTY_X
               /\ b.vx = Quot(horizontalForce * 5 * cos(launchAngle), 100)
               /\ b.vy = Quot(horizontalForce * 5 * sin(launchAngle), 100)

\* a relaunch has drawn the three upper bounds
C11_Witness ==
    /\ lastOp = "Relaunch"
    /\ horizontalForce = 400
    /\ launchAngle = 39
    /\ ballSpin = 60000

\* C11 as stated: the ranges are half-open, 400 N, 39 degrees and 600 RPM are
\* never drawn.
C11_AsStated ==
    lastOp = "Relaunch" =>
        /\ horizontalForce \in 200..399
        /\ launchAngle \in 9..38
        /\ ballSpin \in {rpm * 100 : rpm \in 60..599}


\* C12: on a court screen a ball that becomes inactive puts the simulation into
\* waitingToRelaunch with relaunchTimer 0 (the court-end check zeroes the timer
\* and the waiting branch of the same tick adds the first step); a tick while
\* waiting leaves the ball as it is and adds adjustedDT to the timer; the tick on
\* which the timer first reaches RELAUNCH_DELAY relaunches the ball instead, with
\* waitingToRelaunch false and the timer 0; and, ticks never being starved, a
\* wait in a running simulation leads to the relaunch unless a reset, a screen
\* key or a new start comes before it (or the tick budget of the model ends).
C12_WaitThenRelaunch ==
    /\ []((waitingToRelaunch /\ simulationStarted) =>
             /\ currentScreen \in CourtModes
             /\ ~courtBall[currentScreen].isActive
             /\ relaunchTimer < RELAUNCH_DELAY)
    /\ [][/\ (/\ currentScreen \in CourtModes
              /\ courtBall[currentScreen].isActive
              /\ ~courtBall'[currentScreen].isActive)
             => /\ waitingToRelaunch'
                /\ relaunchTimer' = IF courtBall[currentScreen].x >= COURT_LENGTH
                                    THEN adjustedDT ELSE 0
          /\ (waitingToRelaunch /\ lastOp' = "Update")
             => /\ courtBall' = courtBall
                /\ waitingToRelaunch'
                /\ relaunchTimer' = relaunchTimer + adjustedDT
                /\ relaunchTimer' < RELAUNCH_DELAY
          /\ lastOp' = "Relaunch"
             => /\ waitingToRelaunch
                /\ relaunchTimer < RELAUNCH_DELAY
                /\ relaunchTimer + adjustedDT >= RELAUNCH_DELAY
                /\ ~waitingToRelaunch'
                /\ relaunchTimer' = 0
                /\ courtBall'[currentScreen].isActive
                /\ courtBall'[currentScreen].x = LEFTY_X]_vars
    /\ (waitingToRelaunch /\ simulationStarted /\ ~simulationComplete)
          ~> \/ lastOp = "Relaunch"
             \/ lastOp \in {"KeyReset", "KeyScreen", "StartSimulation"}
             \/ tickCount = MaxTicks

\* the ball left the court, the wait ran its full length and the ball flies again
C12_Witness ==
    /\ lastOp = "Relaunch"
    /\ tickCount * adjustedDT > RELAUNCH_DELAY
    /\ courtBall[currentScreen].isActive
    /\ ~waitingToRelaunch


\* C13 as stated: the pace multiplier scales only the step of the ball's
\* integration; in every tick that is not skipped a movement command displaces
\* RIGHTY by RIGHTY_SPEED * DT (clamped) and a pending relaunch's timer advances
\* by the raw step DT, whatever visualPaceMultiplier is.
C13_AsStated ==
    [][/\ lastOp' \in {"Update", "Relaunch"}
          => rightyPosition' \in {MoveRighty(rightyPosition, l, r) : l, r \in BOOLEAN}
       /\ (waitingToRelaunch /\ lastOp' = "Update")
          => relaunchTimer' = relaunchTimer + DT]_vars


\* C14: RIGHTY's position is always within [NET_X, COURT_LENGTH]; a tick moves
\* it by what the movement keys held give and nothing else moves it; and from
\* any position of the half court, the ends included, VK_LEFT displaces it by
\* RIGHTY_SPEED * DT towards the net and is then clamped at NET_X, VK_RIGHT
\* (applied after it, also in the same tick) displaces it by RIGHTY_SPEED * DT
\* and is then clamped at COURT_LENGTH, so the result is within the half court.
C14_RightyStaysOnHalfCourt ==
    /\ [](/\ rightyPosition >= NET_X
          /\ rightyPosition <= COURT_LENGTH
          /\ \A pos \in {rightyPosition, NET_X, NET_X + 100, COURT_LENGTH - 100, COURT_LENGTH} :
                /\ \A l, r \in BOOLEAN :
                      /\ MoveRighty(pos, l, r) >= NET_X
                      /\ MoveRighty(pos, l, r) <= COURT_LENGTH
                /\ MoveRighty(pos, FALSE, FALSE) = pos
                /\ MoveRighty(pos, TRUE, FALSE) =
                      (IF pos - RIGHTY_SPEED * DT < NET_X THEN NET_X
                       ELSE pos - RIGHTY_SPEED * DT)
                /\ MoveRighty(pos, FALSE, TRUE) =
                      (IF pos + RIGHTY_SPEED * DT > COURT_LENGTH THEN COURT_LENGTH
                       ELSE pos + RIGHTY_SPEED * DT)
                /\ MoveRighty(pos, TRUE, TRUE) =
                      MoveRighty(MoveRighty(pos, TRUE, FALSE), FALSE, TRUE))
    /\ [][IF lastOp' \in {"Update", "Relaunch"} /\ currentScreen # MODE_ALL
          THEN rightyPosition' \in {MoveRighty(rightyPosition, l, r) : l, r \in BOOLEAN}
          ELSE rightyPosition' = rightyPosition]_vars

\* a tick with a movement key held has displaced RIGHTY by RIGHTY_SPEED * DT
C14_Witness ==
    /\ lastOp = "Update"
    /\ Abs(rightyPosition - (COURT_LENGTH - 10000)) = RIGHTY_SPEED * DT


\* C15: CheckRightyCollision is true exactly when the ball is active, the
\* simulation is not paused, |ball.x - rightyPosition| <= 0.0335 + 0.05 m and
\* 0 <= ball.y <= 2.5 * NET_HEIGHT (checked on balls put at, just inside and
\* just outside each limit, active or not, paused or not);
\* and a tick of a court screen that integrates the ball starts a pause exactly
\* when that holds of the updated ball, so never for an inactive ball and never
\* while paused.
C15_CollisionExactlyInReach ==
    /\ [](/\ BALL_RADIUS + RIGHTY_RADIUS = 835
          /\ RIGHTY_HEIGHT = 22850
          /\ \A act, paused \in BOOLEAN :
             \A dx \in {-836, -835, 0, 835, 836} :
             \A y \in {-1, 0, 22850, 22851} :
                LET ball == [isActive |-> act, x |-> rightyPosition + dx, y |-> y]
                IN  CheckRightyCollision(ball, rightyPosition, paused)
                       <=> (/\ act
                            /\ ~paused
                            /\ Abs(dx) <= 835
                            /\ y >= 0
                            /\ y <= 22850))
    /\ [][/\ (/\ lastOp' = "Update"
              /\ currentScreen # MODE_ALL
              /\ ~waitingToRelaunch
              /\ courtBall[currentScreen].x < COURT_LENGTH)
             => (simulationPaused' <=>
                    LET b == courtBall'[currentScreen]
                    IN  /\ b.isActive
                        /\ ~simulationPaused
                        /\ Abs(b.x - rightyPosition') <= 835
                        /\ b.y >= 0
                        /\ b.y <= 22850)
          /\ (~simulationPaused /\ simulationPaused')
             => (lastOp' = "Update" /\ courtBall'[currentScreen].isActive)]_vars

\* the updated ball was within RIGHTY's reach and the tick has started a pause
C15_Witness ==
    /\ lastOp = "Update"
    /\ simulationPaused
    /\ ballHitRighty
    /\ CheckRightyCollision(courtBall[currentScreen], rightyPosition, FALSE)


C17_AsStated ==
    lastOp \in {"DialogAccept", "DialogCancel"} =>
        \A pace \in {100, 1000, 10000} :
        \A left, right \in BOOLEAN :
            ~CheckRightyCollision(
                 update(courtBall[currentScreen], Quot(DT * pace, 1000), 0),
                 MoveRighty(rightyPosition, left, right),
                 simulationPaused)


\* C18: when the return-shot dialog is cancelled, the ball's vx becomes -0.5
\* times the vx it had when the collision was found (the vx the update of that
\* tick ended with; to the last digit of the fixed-point value), its x becomes
\* rightyPosition - 0.1 m, its height, vy and spin stay as they were, and the
\* simulation is no longer paused.
C18_CancelHalvesAndReflects ==
    /\ lastOp = "DialogCancel" =>
          LET b == courtBall[currentScreen]
          IN  /\ Cardinality(lastUpdate) = 1
              /\ \A st \in lastUpdate :
                    /\ st.post.vx > 0
                    /\ b.vx = -(st.post.vx \div 2)
                    /\ Abs(2 * b.vx + st.post.vx) <= 1
                    /\ b.y = st.post.y
                    /\ b.vy = st.post.vy
                    /\ b.spinRPM = st.post.spinRPM
                    /\ b.bounceCount = st.post.bounceCount
              /\ b.x = rightyPosition - 1000
              /\ b.isActive
              /\ ~simulationPaused
              /\ ~ballHitRighty
              /\ pc = "idle"
    /\ \A vx \in {-200001, -3, 0, 1, 200000} :
          LET b0 == [courtBall[MODE_CLAY] EXCEPT !.vx = vx]
              b == CancelBounce(b0, rightyPosition)
          IN  /\ Abs(2 * b.vx + vx) <= 1
              /\ (vx > 0 => b.vx <= 0) /\ (vx < 0 => b.vx >= 0)
              /\ b.x = rightyPosition - 1000
              /\ [b EXCEPT !.vx = vx, !.x = b0.x] = b0

\* the dialog was cancelled and the ball comes back from RIGHTY at half speed
C18_Witness ==
    /\ lastOp = "DialogCancel"
    /\ courtBall[currentScreen].vx < 0
    /\ courtBall[currentScreen].x = rightyPosition - 1000
    /\ \E st \in lastUpdate : st.post.vx > 2


\* C19: the dialog is accepted only with a force within [10, 600] N, an angle
\* within [0, 75] degrees and a spin within [-3000, 9000] RPM, all three as
\* typed (translated, in range, stored unchanged); "Hit Back" with a field that
\* is not translated or out of range leaves the dialog open, the simulation
\* paused, the ball and the stored return values as they were, the typed value
\* not replaced by a limit and the result not confirmed; and the dialog ends
\* only by such an acceptance or by a cancellation, which stores nothing.
C19_DialogAcceptsOnlyValid ==
    /\ [](/\ lastOp = "DialogAccept" =>
                /\ rightyHitForce >= 10 /\ rightyHitForce <= 600
                /\ rightyHitAngle >= 0 /\ rightyHitAngle <= 75
                /\ rightyHitSpin >= -300000 /\ rightyHitSpin <= 900000
          /\ lastOp = "DialogReprompt" =>
                /\ pc = "dialog"
                /\ simulationPaused
                /\ ~params.confirmed
          /\ rightyHitForce \in {300} \cup {tf.val : tf \in TypedForce}
          /\ rightyHitAngle \in {30} \cup {ta.val : ta \in TypedAngle}
          /\ rightyHitSpin \in {12000} \cup {ts.val * 100 : ts \in TypedSpin})
    /\ [][/\ (pc = "dialog" /\ lastOp' \in {"DialogAccept", "DialogReprompt"})
             => \E tf \in TypedForce, ta \in TypedAngle, ts \in TypedSpin :
                   LET forceValid == tf.ok /\ tf.val >= 10 /\ tf.val <= 600
                       angleValid == ta.ok /\ ta.val >= 0 /\ ta.val <= 75
                       spinValid == ts.ok /\ ts.val >= -3000 /\ ts.val <= 9000
                   IN  IF forceValid /\ angleValid /\ spinValid
                       THEN /\ lastOp' = "DialogAccept"
                            /\ pc' = "idle"
                            /\ rightyHitForce' = tf.val
                            /\ rightyHitAngle' = ta.val
                            /\ rightyHitSpin' = ts.val * 100
                       ELSE /\ lastOp' = "DialogReprompt"
                            /\ pc' = "dialog"
                            /\ params'.force = tf.val
                            /\ forceValid => params'.angle = ta.val
                            /\ (forceValid /\ angleValid) => params'.spin = ts.val * 100
                            /\ UNCHANGED << flagVars, ballVars, hitVars, relaunchVars >>
          /\ (pc = "dialog" /\ pc' # "dialog")
             => lastOp' \in {"DialogAccept", "DialogCancel"}
          /\ lastOp' = "DialogCancel"
             => (pc = "dialog" /\ ~params'.confirmed /\ UNCHANGED hitVars)]_vars

\* "Hit Back" was pressed with a force typed just past a limit: the dialog is
\* still open, holding the typed value, and nothing was stored
C19_Witness ==
    /\ lastOp = "DialogReprompt"
    /\ pc = "dialog"
    /\ params.force \in {9, 601}
    /\ rightyHitForce = 300


\* C20 as stated: whatever DefaultForce and DefaultAngle the settings file
\* holds, a ball launched on a court screen (at a start, a reset, a screen key or
\* a relaunch) flies as for a force clamped to [MIN_HORIZONTAL_FORCE,
\* MAX_HORIZONTAL_FORCE] = [0, 1000] N and an angle clamped to [MIN_ANGLE,
\* MAX_ANGLE] = [0, 90] degrees, so at no more than 50 m/s.
C20_AsStated ==
    (/\ currentScreen \in CourtModes
     /\ lastOp \in {"StartSimulation", "KeyReset", "KeyScreen", "Relaunch"}) =>
        LET b == courtBall[currentScreen]
            force == Max(MIN_HORIZONTAL_FORCE, Min(MAX_HORIZONTAL_FORCE, horizontalForce))
            angle == Max(MIN_ANGLE, Min(MAX_ANGLE, launchAngle))
        IN  /\ b.vx = Quot(force * 5 * cos(angle), 100)
            /\ b.vy = Quot(force * 5 * sin(angle), 100)
            /\ b.vx <= 500000
            /\ b.vy <= 500000


\* C21 (as the code has it): a ball that is active has its x within [0,
\* COURT_LENGTH]; update does not clamp x, so the ball that leaves the court
\* keeps the x its last step gave it, beyond the edge, is made inactive by that
\* same update and was inside the court before it.
C21_ActiveBallInsideCourt ==
    /\ \A i \in 1..4 : balls[i].isActive => (balls[i].x >= 0 /\ balls[i].x <= COURT_LENGTH)
    /\ \A m \in CourtModes :
          courtBall[m].isActive => (courtBall[m].x >= 0 /\ courtBall[m].x <= COURT_LENGTH)
    /\ \A st \in lastUpdate :
          /\ st.pre.x >= 0 /\ st.pre.x <= COURT_LENGTH
          /\ st.post.isActive <=>
                (/\ st.post.x >= 0 /\ st.post.x <= COURT_LENGTH
                 /\ ~(st.post.y = 0 /\ st.post.vy = 0 /\ st.post.bounceCount > st.pre.bounceCount))

\* the ball has left the court at the far end and lies beyond it, inactive
C21_Witness ==
    /\ currentScreen \in CourtModes
    /\ ~courtBall[currentScreen].isActive
    /\ courtBall[currentScreen].x > COURT_LENGTH
    /\ waitingToRelaunch

\* C21 as stated: x of every ball is within [0, COURT_LENGTH] in every state,
\* also in and after the tick in which it leaves the court.
C21_AsStated ==
    /\ \A i \in 1..4 : balls[i].x >= 0 /\ balls[i].x <= COURT_LENGTH
    /\ \A m \in CourtModes : courtBall[m].x >= 0 /\ courtBall[m].x <= COURT_LENGTH


\* C22: the bounces list of a ball never holds more than 3 entries, each of
\* height 0: it holds exactly the first three ground contacts since the last
\* reset or relaunch (its length is the smaller of bounceCount and 3); and from
\* one state to the next bounceCount and the length of bounces do not decrease,
\* except in a step that resets or relaunches the ball (both back to zero).
C22_BouncesFirstThree ==
    /\ [](\A b \in {balls[i] : i \in 1..4} \cup {courtBall[m] : m \in CourtModes} :
             /\ Len(b.bounces) = Min(b.bounceCount, 3)
             /\ \A k \in 1..Len(b.bounces) : b.bounces[k].height = 0)
    /\ [][/\ \A i \in 1..4 :
                \/ /\ balls'[i].bounceCount >= balls[i].bounceCount
                   /\ Len(balls'[i].bounces) >= Len(balls[i].bounces)
                \/ /\ balls'[i].bounceCount = 0 /\ balls'[i].bounces = << >>
                   /\ lastOp' \in {"StartSimulation", "KeyReset", "KeyScreen"}
          /\ \A m \in CourtModes :
                \/ /\ courtBall'[m].bounceCount >= courtBall[m].bounceCount
                   /\ Len(courtBall'[m].bounces) >= Len(courtBall[m].bounces)
                \/ /\ courtBall'[m].bounceCount = 0 /\ courtBall'[m].bounces = << >>
                   /\ lastOp' \in {"StartSimulation", "KeyReset", "KeyScreen", "Relaunch"}]_vars

\* a fourth ground contact has happened and was not recorded
C22_Witness ==
    /\ currentScreen \in CourtModes
    /\ lastOp = "Update"
    /\ courtBall[currentScreen].bounceCount >= 4
    /\ Len(courtBall[currentScreen].bounces) = 3
    /\ \E st \in lastUpdate : st.post.bounceCount > st.pre.bounceCount


\* C23: reset is idempotent. In every reachable state, reset applied twice to
\* a ball of the All Courts View gives the ball that reset applied once gives,
\* and resetForHorizontalShot applied twice with the same arguments (the
\* current settings, or a relaunch draw) to the ball of the court screen gives
\* what it gives applied once; the result has no bounces and a trajectory of
\* exactly one sample, the initial one. And after the 'R' key the balls of the
\* current screen are already what a further reset would make of them.
C23_ResetIdempotent ==
    /\ \A i \in 1..4 :
          /\ reset(reset(balls[i])) = reset(balls[i])
          /\ reset(balls[i]).bounces = << >>
          /\ reset(balls[i]).trajectory = << BounceData(0, INITIAL_HEIGHT) >>
    /\ currentScreen \in CourtModes =>
          \A a \in {<< horizontalForce, launchAngle, ballSpin >>, << 400, 39, 60000 >>} :
             LET once == resetForHorizontalShot(courtBall[currentScreen], a[1], a[2], a[3])
             IN  /\ resetForHorizontalShot(once, a[1], a[2], a[3]) = once
                 /\ once.bounces = << >>
                 /\ once.trajectory = << BounceData(0, once.y) >>
                 /\ once.time = 0
    /\ lastOp = "KeyReset" =>
          IF currentScreen = MODE_ALL
          THEN \A i \in 1..4 : balls[i] = reset(balls[i])
          ELSE courtBall[currentScreen] =
                  resetForHorizontalShot(courtBall[currentScreen], horizontalForce, launchAngle, ballSpin)

\* 'R' was pressed after ticks had moved the ball away from its launch state
C23_Witness ==
    /\ lastOp = "KeyReset"
    /\ tickCount >= 9
    /\ currentScreen \in CourtModes
    /\ courtBall[currentScreen].bounces = << >>
    /\ Len(courtBall[currentScreen].trajectory) = 1
    /\ courtBall[currentScreen].time = 0


C25_BouncePeaksGeometric ==
    \A st \in lastUpdate :
        (/\ currentScreen = MODE_ALL
         /\ st.pre.vy > 0 /\ st.integ.vy <= 0
         /\ st.pre.bounceCount \in 1..3)
        => LET e == courts[st.surface].coefficientOfRestitution
               h1 == Quot(INITIAL_HEIGHT * e * e, 10000)
               h2 == Quot(h1 * e * e, 10000)
               h3 == Quot(h2 * e * e, 10000)
               ideal == CASE st.pre.bounceCount = 1 -> h1
                          [] st.pre.bounceCount = 2 -> h2
                          [] st.pre.bounceCount = 3 -> h3
               impactSpeed == 100 * Sqrt(Quot(2 * GRAVITY, 100) * Quot(INITIAL_HEIGHT, 100))
               tolerance == Quot(impactSpeed * adjustedDT, 10000)
               peak == Max(st.pre.y, st.integ.y)
           IN  /\ st.pre.vx = 0 /\ st.pre.spinRPM = 0
               /\ peak <= ideal
               /\ ideal - peak < tolerance

\* the clay ball is at the top of its third bounce, step DT: 0.324 m
C25_Witness ==
    /\ currentScreen = MODE_ALL
    /\ adjustedDT = DT
    /\ \E st \in lastUpdate :
          /\ st.surface = 1
          /\ st.pre.bounceCount = 3
          /\ st.pre.vy > 0 /\ st.integ.vy <= 0
          /\ st.integ.y > 3000 /\ st.integ.y < 3559


\* C26: an update whose integration (and net check) leaves the ball at y <= 0
\* is a ground contact and applies, in this order: y = 0; vy = -vy * e with e
\* the restitution of the ball's own surface; vx = 0.8 * vx + (spin / 5000) * 2
\* with the spin from before its decay; spin = 0.7 * spin; bounceCount + 1.
\* Nothing else of the surface enters: the result is a function of e alone, the
\* friction value has no effect. (A ball that the contact stops has vx = vy = 0
\* afterwards.) An update that ends above the ground applies none of this.
C26_GroundContactOrder ==
    \A st \in lastUpdate :
        LET e == courts[st.surface].coefficientOfRestitution
            vy1 == Quot(-st.net.vy * e, 100)
            vx1 == Quot(st.net.vx * 8, 10) + Quot(st.net.spinRPM * 4, 100)
            stop == Abs(vy1) < 1000 \/ st.net.bounceCount + 1 > 10
        IN  IF st.net.y <= 0
            THEN /\ st.post.y = 0
                 /\ st.post.bounceCount = st.net.bounceCount + 1
                 /\ st.post.spinRPM = Quot(st.net.spinRPM * 7, 10)
                 /\ st.post.vy = IF stop THEN 0 ELSE vy1
                 /\ st.post.vx = IF stop THEN 0 ELSE vx1
                 /\ st.post.isActive => ~stop
            ELSE /\ st.post.y = st.net.y
                 /\ st.post.vy = st.net.vy
                 /\ st.post.vx = st.net.vx
                 /\ st.post.spinRPM = st.net.spinRPM
                 /\ st.post.bounceCount = st.net.bounceCount

\* a spinning ball moving forward has bounced and flies on
C26_Witness ==
    /\ currentScreen \in CourtModes
    /\ \E st \in lastUpdate :
          /\ st.net.y < 0
          /\ st.net.spinRPM > 0
          /\ st.net.vx # 0
          /\ st.post.isActive
          /\ st.post.vy > 0
          /\ st.post.spinRPM < st.net.spinRPM


\* C27: no update divides by zero in the net interpolation. Whenever the
\* crossing test of an update is true, the x after integration differs from
\* the x before it and t = (NET_X - prevX) / (x - prevX) lies in (0, 1]; an
\* update that starts with the ball exactly at x = NET_X (where a net hit puts
\* it) does not enter the crossing branch; and a ball resting on the net line
\* with vx = 0, as a soft net hit leaves it, stays at x = NET_X and never
\* enters the branch again.
C27_NetInterpolationDefined ==
    /\ \A st \in lastUpdate :
          /\ st.crossed
             => /\ st.integ.x # st.pre.x
                /\ st.pre.x # NET_X
                /\ LET t == Quot((NET_X - st.pre.x) * 10000, st.integ.x - st.pre.x)
                   IN  t > 0 /\ t <= 10000
          /\ st.pre.x = NET_X => ~st.crossed
    /\ currentScreen \in CourtModes =>
          LET resting == [courtBall[currentScreen] EXCEPT !.x = NET_X, !.vx = 0, !.isActive = TRUE]
              moved == integrate(resting, adjustedDT)
          IN  /\ moved.x = NET_X
              /\ ~crossedNet(resting.x, moved.x)

\* the update after a net hit: the ball starts exactly on the net line, moves
\* off it and the crossing branch is not entered
C27_Witness ==
    /\ currentScreen \in CourtModes
    /\ lastOp = "Update"
    /\ \E st \in lastUpdate :
          /\ st.pre.x = NET_X
          /\ st.integ.x # NET_X
          /\ ~st.crossed


\* C28 as stated, for the repositioning after a return: with RIGHTY standing
\* anywhere in [NET_X, COURT_LENGTH] (here at the net, where the VK_LEFT clamp
\* stops it, and up to 0.1 m behind it), whenever the ball is within RIGHTY's
\* reach at x >= NET_X, neither the accepted nor the cancelled return moves it
\* to x < NET_X: the ball changes side only in an update that applies the net
\* test.
C28_AsStated ==
    \A m \in CourtModes :
    \A p \in {NET_X, NET_X + BALL_RADIUS + RIGHTY_RADIUS, NET_X + 999, rightyPosition} :
        LET b == courtBall[m]
        IN  (/\ p >= NET_X /\ p <= COURT_LENGTH
             /\ b.x >= NET_X
             /\ CheckRightyCollision(b, p, FALSE))
            => /\ CancelBounce(b, p).x >= NET_X
               /\ ApplyRightyHit(b, rightyHitForce, rightyHitAngle, rightyHitSpin, p).x >= NET_X


\* C29: while the simulation is started, a change of a launch setting (force,
\* angle or spin key, mouse wheel) or of the air-resistance selector stores the
\* new value and leaves every ball as it is: position, velocity, spin, drag
\* coefficient, bounce count, trajectory and bounces. The stored settings reach
\* the ball at the next start, which launches it with horizontalForce,
\* launchAngle, ballSpin and the coefficient of the selected air mode; a timer
\* relaunch replaces force, angle and spin by its draw, launches the ball with
\* the drawn values and gives it the coefficient of the air mode selected then.
C29_SettingsReachBallAtLaunch ==
    [][/\ (simulationStarted /\ lastOp' \in {"ChangeSetting", "OnMouseClick"})
          => /\ balls' = balls
             /\ courtBall' = courtBall
             /\ simulationStarted'
             /\ lastOp' = "OnMouseClick" => airResistanceMode' # airResistanceMode
       /\ (lastOp' = "StartSimulation" /\ currentScreen \in CourtModes)
          => LET b == courtBall'[currentScreen]
             IN  /\ b.vx = Quot(horizontalForce * 5 * cos(launchAngle), 100)
                 /\ b.vy = Quot(horizontalForce * 5 * sin(launchAngle), 100)
                 /\ b.spinRPM = ballSpin
                 /\ b.airResistanceCoeff = airModes[airResistanceMode]
                 /\ UNCHANGED settingVars
       /\ lastOp' = "Relaunch"
          => LET b == courtBall'[currentScreen]
             IN  /\ horizontalForce' \in 200..400
                 /\ launchAngle' \in 9..39
                 /\ ballSpin' \in 6000..60000
                 /\ b.vx = Quot(horizontalForce' * 5 * cos(launchAngle'), 100)
                 /\ b.vy = Quot(horizontalForce' * 5 * sin(launchAngle'), 100)
                 /\ b.spinRPM = ballSpin'
                 /\ airResistanceMode' = airResistanceMode
                 /\ b.airResistanceCoeff = airModes[airResistanceMode]]_vars

\* the air mode was changed while the ball was flying: the ball still has the
\* coefficient it was launched with
C29_Witness ==
    /\ lastOp = "OnMouseClick"
    /\ simulationStarted
    /\ currentScreen \in CourtModes
    /\ courtBall[currentScreen].isActive
    /\ courtBall[currentScreen].x > LEFTY_X
    /\ courtBall[currentScreen].airResistanceCoeff # airModes[airResistanceMode]


\* C30: a cancelled return shot changes, of the ball, only vx and x. Across the
\* cancellation the ball's y, vy, spin, bounceCount, elapsed time, drag
\* coefficient, trajectory and bounces, every other ball, RIGHTY's position,
\* the launch settings and the remembered dialog defaults rightyHitForce,
\* rightyHitAngle and rightyHitSpin are the same as at the collision; values
\* typed into the dialog (an OK that was rejected stores them in the params of
\* the open dialog) change none of these either, before or after the cancel.
C30_CancelFrame ==
    [][/\ lastOp' = "DialogCancel"
          => /\ pc = "dialog" /\ simulationPaused
             /\ [courtBall'[currentScreen] EXCEPT !.vx = courtBall[currentScreen].vx,
                                                  !.x = courtBall[currentScreen].x]
                   = courtBall[currentScreen]
             /\ \A m \in CourtModes \ {currentScreen} : courtBall'[m] = courtBall[m]
             /\ balls' = balls
             /\ rightyPosition' = rightyPosition
             /\ rightyHitForce' = rightyHitForce
             /\ rightyHitAngle' = rightyHitAngle
             /\ rightyHitSpin' = rightyHitSpin
             /\ UNCHANGED settingVars
       /\ lastOp' = "DialogReprompt"
          => /\ pc = "dialog" /\ pc' = "dialog"
             /\ UNCHANGED << balls, courtBall, rightyPosition, rightyHitForce,
                             rightyHitAngle, rightyHitSpin, settingVars >>]_vars

\* the dialog was cancelled: the ball is back in play with the time, trajectory
\* and spin of the collision, and the dialog defaults are the initial ones
C30_Witness ==
    /\ lastOp = "DialogCancel"
    /\ pc = "idle"
    /\ courtBall[currentScreen].time > 0
    /\ Len(courtBall[currentScreen].trajectory) > 1
    /\ courtBall[currentScreen].spinRPM > 0
    /\ << rightyHitForce, rightyHitAngle, rightyHitSpin >> = << 300, 30, 12000 >>
    /\ \E st \in lastUpdate : st.post.y = courtBall[currentScreen].y

=============================================================================
